---- MODULE Spec2Model ----
(***************************************************************************)
(* Model of the static http server's file cache (entry pool, LRU list,    *)
(* path index, size counters, cache_lock) and of the per-session request  *)
(* callbacks that use it (src/plugins/http_static/static_server.c).       *)
(*                                                                         *)
(* Release-build semantics: pool_put leaves the slot's memory in place,   *)
(* vec_free nulls the pointer it frees, pool_get_zero hands out the most  *)
(* recently freed index and zeroes the slot.                               *)
(*                                                                         *)
(* The send path (start_send_data, the tx callback, hss_session_send_data)*)
(* writes to the transport session's tx fifo; what a session has enqueued *)
(* since its last request was read is kept in ts[s].tx_fifo.  The fifo    *)
(* always has room for the reply record (the code only ASSERTs it); the   *)
(* room it has for body bytes is an input of each enqueue.                *)
(***************************************************************************)
EXTENDS Integers, Sequences, FiniteSets, TLC

(* ----------------------------- bounds ---------------------------------- *)
NumThreads == 2        \* main thread + workers (hss_create: 1 + n_threads)
MaxSessions == 2       \* slots in each thread's session pool
MaxPool == 3           \* slots in the cache entry pool
MaxTime == 1           \* largest value of the clock
MaxEvictions == 3      \* cap of the cache_evictions counter
MaxInuse == 2          \* cap of an entry's inuse counter
CacheLimit == 2        \* hsm->cache_limit, in model size units
MaxLen == 3            \* largest data_len a url handler returns
UsePtrThresh == 2      \* hsm->use_ptr_thresh, in model size units
MaxFree == 2           \* most room the tx fifo has for one body enqueue

(* ---------------------------- constants -------------------------------- *)
NONE == -1             \* the ~0 sentinel of pool indices
EFULL == -2            \* SVM_FIFO_EFULL: svm_fifo_enqueue on a full fifo

Threads == 0 .. (NumThreads - 1)
SessIdx == 0 .. (MaxSessions - 1)
SessId == Threads \X SessIdx
Slots == 0 .. (MaxPool - 1)

NoPath == "nopath"     \* a null u8 * path / filename
NoData == "nodata"     \* a null u8 * data vector
Paths == {"a", "b", "c"}      \* regular files under www_root, >= 20 bytes
FileSize == [p \in Paths |-> IF p = "b" THEN 2 ELSE 1]

Freed == "freed"       \* a data pointer whose vector has been freed

\* vec_len of a data vector: the file's size for a file buffer, 0 for null
\* (and for what is read in the header of a freed vector)
VecLen(d) == IF d \in Paths THEN FileSize[d] ELSE 0

VARIABLES
  cache_pool,       \* hsm->cache_pool: slot -> hss_cache_entry_t
  pool_len,         \* vec_len of the pool vector
  free_indices,     \* the pool's free index stack
  free_bitmap,      \* the pool's free bitmap
  first_index,      \* hsm->first_index (LRU newest)
  last_index,       \* hsm->last_index (LRU oldest)
  name_to_data,     \* hsm->name_to_data: path -> slot
  cache_size,       \* hsm->cache_size
  cache_evictions,  \* hsm->cache_evictions
  cache_lock,       \* holder of hsm->cache_lock, or NoHolder
  now,              \* vlib_time_now
  sessions,         \* hsm->sessions[thread][index]: hss_session_t + callback position
  sess_len,         \* vec_len of each thread's session pool
  sess_free,        \* free index stack of each thread's session pool
  busy_items,       \* what the last clear command reported
  ts,               \* the transport session behind each session slot
  cfg               \* what the start command leaves in hss_main:
                    \* enable_url_handlers, www_root (set or not),
                    \* app_index, whether the listener is up, its result

vars == <<cache_pool, pool_len, free_indices, free_bitmap, first_index,
          last_index, name_to_data, cache_size, cache_evictions, cache_lock,
          now, sessions, sess_len, sess_free, busy_items, ts, cfg>>

NoHolder == <<NONE, NONE>>
CliHolder == <<NONE, 0>>

\* a slot as pool_get_zero leaves it
ZeroEntry == [filename |-> NoPath, data |-> NoData, inuse |-> 0,
              last_used |-> 0, prev_index |-> 0, next_index |-> 0]

\* a session as hss_session_alloc leaves it
ZeroSession == [pc |-> "idle", path |-> NoPath, data |-> NoData,
                cache_pool_index |-> NONE, kv_value |-> NONE, inuse_reg |-> 0,
                data_len |-> 0, data_offset |-> 0, free_data |-> FALSE,
                sc |-> 0]

\* a transport session as the session layer hands it to the accept callback:
\* request is the kind of the last message read from the rx fifo, tx_fifo
\* what has been enqueued since, event the last callback made on it,
\* handle whether a url handler that returned ASYNC still holds the
\* session handle, caller the thread on which hss_session_send_data ran
\* for the request, stale whether the handle that is held was given out
\* by a session that has since been cleaned up at this index.  One handle
\* per index is followed: that of the latest ASYNC request
ZeroTs == [request |-> "none", tx_fifo |-> << >>, want_deq_ntf |-> FALSE,
           disconnect |-> FALSE, handle |-> FALSE, event |-> "none",
           caller |-> NONE, stale |-> FALSE]

\* pool_is_free_index on the cache pool
IsFree(i) == i >= pool_len \/ i \in free_bitmap
Live(i) == ~IsFree(i)
LiveSlots == {i \in Slots : Live(i)}

\* the shared cache as one value, for the operators below
Cache == [pool |-> cache_pool, len |-> pool_len, free |-> free_indices,
          bitmap |-> free_bitmap, first |-> first_index, last |-> last_index,
          n2d |-> name_to_data, size |-> cache_size, evict |-> cache_evictions]

SetCache(c) ==
  /\ cache_pool' = c.pool
  /\ pool_len' = c.len
  /\ free_indices' = c.free
  /\ free_bitmap' = c.bitmap
  /\ first_index' = c.first
  /\ last_index' = c.last
  /\ name_to_data' = c.n2d
  /\ cache_size' = c.size
  /\ cache_evictions' = c.evict

cacheVars == <<cache_pool, pool_len, free_indices, free_bitmap, first_index,
               last_index, name_to_data, cache_size, cache_evictions>>

(* ------------------------------ LRU list ------------------------------- *)
lru_remove(c, i) ==
  LET ep == c.pool[i]
      first1 == IF i = c.first THEN ep.next_index ELSE c.first
      last1 == IF i = c.last THEN ep.prev_index ELSE c.last
      p1 == IF ep.next_index # NONE
            THEN [c.pool EXCEPT ![ep.next_index].prev_index = ep.prev_index]
            ELSE c.pool
      p2 == IF p1[i].prev_index # NONE
            THEN [p1 EXCEPT ![p1[i].prev_index].next_index = p1[i].next_index]
            ELSE p1
  IN [c EXCEPT !.pool = p2, !.first = first1, !.last = last1]

lru_add(c, i, t) ==
  LET p1 == IF c.first # NONE
            THEN [c.pool EXCEPT ![c.first].prev_index = i]
            ELSE c.pool
      p2 == [p1 EXCEPT ![i].prev_index = NONE, ![i].next_index = c.first,
                       ![i].last_used = t]
  IN [c EXCEPT !.pool = p2, !.first = i,
               !.last = IF c.last = NONE THEN i ELSE c.last]

lru_update(c, i, t) == lru_add(lru_remove(c, i), i, t)

(* ------------------------------ the pool ------------------------------- *)
\* pool_put: push the index on the free stack, set its bit
pool_put(c, i) ==
  [c EXCEPT !.free = Append(c.free, i), !.bitmap = c.bitmap \cup {i}]

\* index pool_get hands out: the most recently freed one, else a new slot
PoolGetIndex(c) ==
  IF Len(c.free) > 0 THEN c.free[Len(c.free)] ELSE c.len

pool_get_zero(c) ==
  LET i == PoolGetIndex(c)
      c1 == IF Len(c.free) > 0
            THEN [c EXCEPT !.free = SubSeq(c.free, 1, Len(c.free) - 1),
                           !.bitmap = c.bitmap \ {i}]
            ELSE [c EXCEPT !.len = c.len + 1]
  IN [c1 EXCEPT !.pool[i] = ZeroEntry]

(* ---------------------------- path index ------------------------------- *)
\* clib_bihash_add_del, is_add = 0: delete the key (a null key is not found)
n2d_del(c, key) ==
  IF key # NoPath THEN [c EXCEPT !.n2d[key] = NONE] ELSE c

\* clib_bihash_add_del, is_add = 1: add, replacing the value of an existing key
n2d_add(c, key, value) == [c EXCEPT !.n2d[key] = value]

(* ------------------ freeing one entry (evict / clear) ------------------ *)
FreeEntry(c, i) ==
  LET ce == c.pool[i]
      c1 == n2d_del(c, ce.filename)
      c2 == lru_remove(c1, i)
      c3 == [c2 EXCEPT !.size = c2.size - VecLen(ce.data),
                       !.evict = c2.evict + 1,
                       !.pool[i].filename = NoPath,
                       !.pool[i].data = NoData]
  IN pool_put(c3, i)

\* iterations after which a scan over a corrupted list is taken to spin
ScanFuel == 2 * MaxPool + 2


(* ------------------- miss path: the eviction scan ---------------------- *)
\* while (free_index != ~0): free the entry, stop once cache_size < cache_limit.
\* The in-use test only logs; the entry is freed whatever its inuse.
RECURSIVE EvictScan(_, _, _)
EvictScan(c, free_index, fuel) ==
  IF free_index = NONE THEN [c |-> c, spin |-> FALSE]
  ELSE IF fuel = 0 THEN [c |-> c, spin |-> TRUE]
  ELSE LET nxt == c.pool[free_index].prev_index
           c1 == FreeEntry(c, free_index)
       IN IF c1.size < CacheLimit
          THEN [c |-> c1, spin |-> FALSE]
          ELSE EvictScan(c1, nxt, fuel - 1)

\* a variant that starts the scan one unit above the code's threshold
EvictLate(c) ==
  IF c.size > CacheLimit + 1
  THEN EvictScan(c, c.last, ScanFuel)
  ELSE [c |-> c, spin |-> FALSE]

\* if (hsm->cache_size > hsm->cache_limit) { ...scan from last_index... }
Evict(c) ==
  IF c.size > CacheLimit
  THEN EvictScan(c, c.last, ScanFuel)
  ELSE [c |-> c, spin |-> FALSE]

(* ----------------------- clear command: the scan ----------------------- *)
\* an in-use entry counts as busy and the walk goes on at its next_index;
\* after freeing an entry the walk restarts at last_index
RECURSIVE ClearScan(_, _, _, _)
ClearScan(c, free_index, busy, fuel) ==
  IF free_index = NONE THEN [c |-> c, busy |-> busy, spin |-> FALSE]
  ELSE IF fuel = 0 THEN [c |-> c, busy |-> busy, spin |-> TRUE]
  ELSE LET ce == c.pool[free_index]
       IN IF ce.inuse # 0
          THEN ClearScan(c, ce.next_index, busy + 1, fuel - 1)
          ELSE LET c1 == FreeEntry(c, free_index)
               IN ClearScan(c1, c1.last, busy, fuel - 1)

(* ------------------------------ sessions ------------------------------- *)
Thread(s) == s[1]

\* callbacks of one thread run to completion: no session of the thread is
\* inside a callback
ThreadIdle(w) == \A s \in SessId : Thread(s) = w => sessions[s].pc = "idle"

\* hss_session_get: the slot is not free in its thread's pool
SessionLive(s) ==
  /\ s[2] < sess_len[s[1]]
  /\ \A k \in 1 .. Len(sess_free[s[1]]) : sess_free[s[1]][k] # s[2]

\* the index pool_get_zero hands out in hss_session_alloc
SessAllocIndex(w) ==
  IF Len(sess_free[w]) > 0 THEN sess_free[w][Len(sess_free[w])] ELSE sess_len[w]

\* pool_put in hss_session_free; the record is reset (its fields are dead
\* until pool_get_zero zeroes them)
SessionFree(s) ==
  /\ sess_free' = [sess_free EXCEPT ![s[1]] = Append(@, s[2])]
  /\ UNCHANGED sess_len

HandlerRv == {"OK", "ERROR", "ASYNC"}

(* ------------------------------ send path ------------------------------ *)
\* what the tx fifo holds: reply records, machine words, body bytes; a body
\* byte is named by the buffer it was copied from and its position there
ReplyItem(code, len, type) ==
  [kind |-> "reply", code |-> code, content_type |-> "text/html",
   len |-> len, type |-> type, data |-> NoData, pos |-> 0]
WordItem(d) ==
  [kind |-> "word", code |-> 0, content_type |-> "none", len |-> 0,
   type |-> "none", data |-> d, pos |-> 0]
ByteItem(d, k) ==
  [kind |-> "byte", code |-> 0, content_type |-> "none", len |-> 0,
   type |-> "none", data |-> d, pos |-> k]

\* the n bytes of buffer d from position o on
Bytes(d, o, n) == [k \in 1 .. n |-> ByteItem(d, o + k - 1)]

\* svm_fifo_enqueue of len bytes into a fifo with free bytes of room
FifoEnqueue(free, len) ==
  IF free = 0 THEN EFULL ELSE IF len < free THEN len ELSE free

\* start_send_data handing the buffer over by pointer from the threshold on
start_send_data_ge(hs, t, status, free) ==
  IF hs.data_len >= UsePtrThresh
  THEN [hs |-> hs,
        ts |-> [t EXCEPT !.tx_fifo =
                  @ \o <<ReplyItem(status, hs.data_len, "ptr"),
                         WordItem(hs.data)>>],
        crash |-> FALSE]
  ELSE LET t1 == [t EXCEPT !.tx_fifo =
                    Append(@, ReplyItem(status, hs.data_len, "inline"))]
           rv == FifoEnqueue(free, hs.data_len)
       IN IF hs.data_len = 0
          THEN [hs |-> hs, ts |-> t1, crash |-> FALSE]
          ELSE IF rv > 0 /\ hs.data = NoData
          THEN [hs |-> hs, ts |-> t1, crash |-> TRUE]
          ELSE [hs |-> IF rv # hs.data_len
                       THEN [hs EXCEPT !.data_offset = rv] ELSE hs,
                ts |-> [t1 EXCEPT
                          !.tx_fifo = @ \o Bytes(hs.data, 0, rv),
                          !.want_deq_ntf = @ \/ (rv # hs.data_len)],
                crash |-> FALSE]

\* start_send_data on session record hs with transport session t; free is
\* the room found by the body enqueue.  crash: the copy reads a null buffer
start_send_data(hs, t, status, free) ==
  IF hs.data_len > UsePtrThresh
  THEN [hs |-> hs,
        ts |-> [t EXCEPT !.tx_fifo =
                  @ \o <<ReplyItem(status, hs.data_len, "ptr"),
                         WordItem(hs.data)>>],
        crash |-> FALSE]
  ELSE LET t1 == [t EXCEPT !.tx_fifo =
                    Append(@, ReplyItem(status, hs.data_len, "inline"))]
           rv == FifoEnqueue(free, hs.data_len)
       IN IF hs.data_len = 0
          THEN [hs |-> hs, ts |-> t1, crash |-> FALSE]
          ELSE IF rv > 0 /\ hs.data = NoData
          THEN [hs |-> hs, ts |-> t1, crash |-> TRUE]
          ELSE [hs |-> IF rv # hs.data_len
                       THEN [hs EXCEPT !.data_offset = rv] ELSE hs,
                ts |-> [t1 EXCEPT
                          !.tx_fifo = @ \o Bytes(hs.data, 0, rv),
                          !.want_deq_ntf = @ \/ (rv # hs.data_len)],
                crash |-> FALSE]

\* hss_session_disconnect_transport
disconnect_transport(t) == [t EXCEPT !.disconnect = TRUE]

\* the tail of a callback that sends: start_send_data, then the disconnect
\* request when do_disc and the session has no data; the callback returns
SendTail(s, hs, t, status, free, do_disc) ==
  LET r == start_send_data(hs, t, status, free) IN
  IF r.crash
  THEN /\ sessions' = [sessions EXCEPT ![s] = [r.hs EXCEPT !.pc = "crash"]]
       /\ ts' = [ts EXCEPT ![s] = r.ts]
  ELSE /\ sessions' = [sessions EXCEPT
                         ![s] = [r.hs EXCEPT !.pc = "idle", !.sc = 0]]
       /\ ts' = [ts EXCEPT ![s] =
                   IF do_disc /\ r.hs.data = NoData
                   THEN disconnect_transport(r.ts) ELSE r.ts]

\* the room the tx fifo may have for a body enqueue
FreeRoom == 0 .. MaxFree

\* no callback has died on a null buffer
Running == \A s \in SessId : sessions[s].pc # "crash"

\* the transport protocols a session reports, the local ports of the
\* listener (the two defaults and two others), no port
Protos == {"TCP", "TLS", "DTLS", "QUIC"}
Ports == {80, 443, 8080, 8443}
NoPort == 0

\* handle_request, the redirect: whether the port is printed
PrintPort(proto, local_port) ==
  \/ proto = "TCP" /\ local_port # 80
  \/ proto = "TLS" /\ local_port # 443

\* handle_request, the redirect: the scheme and the port of the Location
\* header for a session of transport proto with local port local_port
Location(proto, local_port) ==
  [scheme |-> IF proto = "TLS" THEN "https" ELSE "http",
   port |-> IF PrintPort(proto, local_port) THEN local_port ELSE NoPort]

\* hss_main after hss_main_init: not attached; proto and port are those
\* of the uri the server listens on, tcp://0.0.0.0/80 unless set
Stopped ==
  [enable_url_handlers |-> FALSE, www_root |-> FALSE, app_index |-> NONE,
   listening |-> FALSE, error |-> "none", proto |-> "TCP", port |-> 80]

\* hss_main after a start command that succeeded with url-handlers (u)
\* and www-root (w)
Started(u, w) ==
  [enable_url_handlers |-> u, www_root |-> w, app_index |-> 0,
   listening |-> TRUE, error |-> "ok", proto |-> "TCP", port |-> 80]

\* the configurations the start command accepts: www-root, url-handlers
\* or both
Configs ==
  {Started(f[1], f[2]) : f \in {g \in BOOLEAN \X BOOLEAN : g[1] \/ g[2]}}

\* the state after hss_main_init, before the start command's configuration
InitState ==
  /\ cache_pool = [i \in Slots |-> ZeroEntry]
  /\ pool_len = 0
  /\ free_indices = << >>
  /\ free_bitmap = {}
  /\ first_index = NONE
  /\ last_index = NONE
  /\ name_to_data = [p \in Paths |-> NONE]
  /\ cache_size = 0
  /\ cache_evictions = 0
  /\ cache_lock = NoHolder
  /\ now = 0
  /\ sessions = [s \in SessId |-> ZeroSession]
  /\ sess_len = [w \in Threads |-> 0]
  /\ sess_free = [w \in Threads |-> << >>]
  /\ busy_items = 0
  /\ ts = [s \in SessId |-> ZeroTs]

\* started with www-root and url-handlers
Init ==
  /\ InitState
  /\ cfg = Started(TRUE, TRUE)

\* started with any accepted configuration
InitAnyCfg ==
  /\ InitState
  /\ cfg \in Configs

(* vlib_time_now: the clock advances between callbacks *)
Tick ==
  /\ now < MaxTime
  /\ now' = now + 1
  /\ UNCHANGED <<cfg, cacheVars, cache_lock, sessions, sess_len, sess_free,
                 busy_items, ts>>

(* hss_ts_accept_callback -> hss_session_alloc *)
Accept(w) ==
  /\ ThreadIdle(w)
  /\ SessAllocIndex(w) \in SessIdx
  /\ LET i == SessAllocIndex(w) IN
     /\ sessions' = [sessions EXCEPT ![<<w, i>>] = ZeroSession]
     /\ IF Len(sess_free[w]) > 0
        THEN /\ sess_free' = [sess_free EXCEPT
                                ![w] = SubSeq(@, 1, Len(@) - 1)]
             /\ UNCHANGED sess_len
        ELSE /\ sess_len' = [sess_len EXCEPT ![w] = @ + 1]
             /\ UNCHANGED sess_free
  /\ UNCHANGED <<cfg, cacheVars, cache_lock, now, busy_items, ts>>

\* the session layer delivers a request: the session is live, its thread
\* is between callbacks, and the engine has not asked for a disconnect
RxReady(s) ==
  /\ SessionLive(s)
  /\ ThreadIdle(Thread(s))
  /\ ~ts[s].disconnect

\* the transport session once a message of kind req has been read
RxRead(t, req) ==
  [t EXCEPT !.request = req, !.tx_fifo = << >>, !.event = "rx",
            !.caller = NONE]

(* hss_ts_rx_callback: type is not request, or method is not GET / POST *)
RxBadMethod(s, free) ==
  /\ RxReady(s)
  /\ SendTail(s, [sessions[s] EXCEPT !.data = NoData], RxRead(ts[s], "bad"),
              405, free, FALSE)
  /\ UNCHANGED <<cfg, cacheVars, cache_lock, now, sess_len, sess_free, busy_items>>

\* what a url handler leaves in args: data, data_len, free_vec_data (a
\* handler hands over the buffer it built)
HandlerOut ==
  {[data |-> NoData, len |-> 0, free |-> FALSE]} \cup
  {[data |-> "hdata", len |-> n, free |-> TRUE] : n \in 1 .. MaxLen}

HandlerReq(rv) ==
  IF rv = "OK" THEN "handler_ok"
  ELSE IF rv = "ERROR" THEN "handler_error" ELSE "handler_async"

\* the handler dispatch replying at once whatever the handler returns
RxHandlerNoWait(s, rv, out, free) ==
  /\ RxReady(s)
  /\ cfg.enable_url_handlers
  /\ LET hs1 == [sessions[s] EXCEPT !.path = NoPath, !.data_offset = 0,
                                    !.cache_pool_index = NONE]
         hs2 == [hs1 EXCEPT !.data = out.data, !.data_len = out.len,
                            !.free_data = out.free]
         t1 == RxRead(ts[s], HandlerReq(rv))
     IN IF FALSE
        THEN /\ sessions' = [sessions EXCEPT ![s] = hs1]
             /\ ts' = [ts EXCEPT ![s] = [t1 EXCEPT !.handle = TRUE,
                                                  !.stale = FALSE]]
        ELSE SendTail(s, hs2, t1, IF rv = "ERROR" THEN 404 ELSE 200, free,
                      TRUE)
  /\ UNCHANGED <<cfg, cacheVars, cache_lock, now, sess_len, sess_free, busy_items>>

(* hss_ts_rx_callback -> handle_request -> try_url_handler, the request is
   registered; rv and out are what the handler returns *)
RxHandler(s, rv, out, free) ==
  /\ RxReady(s)
  /\ cfg.enable_url_handlers
  /\ LET hs1 == [sessions[s] EXCEPT !.path = NoPath, !.data_offset = 0,
                                    !.cache_pool_index = NONE]
         hs2 == [hs1 EXCEPT !.data = out.data, !.data_len = out.len,
                            !.free_data = out.free]
         t1 == RxRead(ts[s], HandlerReq(rv))
     IN IF rv = "ASYNC"
        THEN /\ sessions' = [sessions EXCEPT ![s] = hs1]
             /\ ts' = [ts EXCEPT ![s] = [t1 EXCEPT !.handle = TRUE,
                                                  !.stale = FALSE]]
        ELSE SendTail(s, hs2, t1, IF rv = "ERROR" THEN 404 ELSE 200, free,
                      TRUE)
  /\ UNCHANGED <<cfg, cacheVars, cache_lock, now, sess_len, sess_free, busy_items>>

(* handle_request: no handler; www_root is unset or all three stat
   attempts fail; up to the done label *)
RxNoFile(s) ==
  /\ RxReady(s)
  /\ sessions' = [sessions EXCEPT ![s].pc = "done", ![s].sc = 404]
  /\ ts' = [ts EXCEPT ![s] = RxRead(@, "nofile")]
  /\ UNCHANGED <<cfg, cacheVars, cache_lock, now, sess_len, sess_free, busy_items>>

(* handle_request: no handler; only the third stat attempt (the request
   plus /index.html) succeeds; up to the done label *)
RxRedirect(s) ==
  /\ RxReady(s)
  /\ cfg.www_root
  /\ sessions' = [sessions EXCEPT ![s].data = "redirect", ![s].pc = "done",
                                  ![s].sc = 200]
  /\ ts' = [ts EXCEPT ![s] = RxRead(@, "redirect")]
  /\ UNCHANGED <<cfg, cacheVars, cache_lock, now, sess_len, sess_free, busy_items>>

(* handle_request: no handler, the first or second stat finds regular file
   p; up to the lookup in name_to_data, done outside cache_lock; with
   hs->data set by an earlier request the lookup is skipped *)
RxFile(s, p) ==
  /\ RxReady(s)
  /\ cfg.www_root
  /\ IF sessions[s].data = NoData
     THEN sessions' = [sessions EXCEPT
            ![s].path = p,
            ![s].kv_value = name_to_data[p],
            ![s].pc = IF name_to_data[p] # NONE THEN "hit" ELSE "miss"]
     ELSE sessions' = [sessions EXCEPT ![s].pc = "done", ![s].sc = 200]
  /\ ts' = [ts EXCEPT ![s] = RxRead(@, "file")]
  /\ UNCHANGED <<cfg, cacheVars, cache_lock, now, sess_len, sess_free, busy_items>>

(* handle_request, the done label: start_send_data, the disconnect request
   when the session has no data, return *)
Done(s, free) ==
  /\ sessions[s].pc = "done"
  /\ SendTail(s, sessions[s], ts[s], sessions[s].sc, free, TRUE)
  /\ UNCHANGED <<cfg, cacheVars, cache_lock, now, sess_len, sess_free, busy_items>>

(* handle_request, hit: hss_cache_lock .. the load of ce->inuse++ *)
HitLock(s) ==
  /\ sessions[s].pc = "hit"
  /\ cache_lock = NoHolder
  /\ cache_pool[sessions[s].kv_value].inuse < MaxInuse
  /\ LET i == sessions[s].kv_value
         c1 == lru_update(Cache, i, now)
     IN /\ SetCache(c1)
        /\ sessions' = [sessions EXCEPT ![s].data = cache_pool[i].data,
                                        ![s].cache_pool_index = i,
                                        ![s].kv_value = NONE,
                                        ![s].inuse_reg = cache_pool[i].inuse,
                                        ![s].pc = "hit_inc"]
  /\ cache_lock' = s
  /\ UNCHANGED <<cfg, now, sess_len, sess_free, busy_items, ts>>

\* the hit path going to the done label without hss_cache_unlock
HitIncKept(s) ==
  /\ sessions[s].pc = "hit_inc"
  /\ cache_pool' = [cache_pool EXCEPT ![sessions[s].cache_pool_index].inuse =
                                       sessions[s].inuse_reg + 1]
  /\ sessions' = [sessions EXCEPT ![s].pc = "done", ![s].sc = 200,
                                  ![s].inuse_reg = 0, ![s].data_offset = 0]
  /\ UNCHANGED <<cfg, pool_len, free_indices, free_bitmap, first_index, last_index,
                 name_to_data, cache_size, cache_evictions, cache_lock, now,
                 sess_len, sess_free, busy_items, ts>>

(* handle_request, hit: the store of ce->inuse++, hss_cache_unlock, the
   reset of data_offset; up to the done label *)
HitInc(s) ==
  /\ sessions[s].pc = "hit_inc"
  /\ cache_pool' = [cache_pool EXCEPT ![sessions[s].cache_pool_index].inuse =
                                       sessions[s].inuse_reg + 1]
  /\ cache_lock' = NoHolder
  /\ sessions' = [sessions EXCEPT ![s].pc = "done", ![s].sc = 200,
                                  ![s].inuse_reg = 0, ![s].data_offset = 0]
  /\ UNCHANGED <<cfg, pool_len, free_indices, free_bitmap, first_index, last_index,
                 name_to_data, cache_size, cache_evictions, now, sess_len,
                 sess_free, busy_items, ts>>

\* the miss path with the read-failure exit still holding cache_lock
MissLockKept(s, read_ok) ==
  /\ sessions[s].pc = "miss"
  /\ cache_lock = NoHolder
  /\ LET ev == Evict(Cache) IN
     /\ ev.c.evict <= MaxEvictions
     /\ Len(ev.c.free) <= MaxPool
     /\ IF ev.spin
        THEN /\ cache_lock' = s
             /\ sessions' = [sessions EXCEPT ![s].pc = "spin"]
             /\ UNCHANGED cacheVars
        ELSE IF ~read_ok
        THEN /\ SetCache(ev.c)
             /\ cache_lock' = s
             /\ sessions' = [sessions EXCEPT ![s].pc = "done",
                                             ![s].sc = 500,
                                             ![s].kv_value = NONE]
        ELSE /\ PoolGetIndex(ev.c) \in Slots
             /\ LET i == PoolGetIndex(ev.c)
                    path == sessions[s].path
                    c1 == pool_get_zero(ev.c)
                    c2 == [c1 EXCEPT !.pool[i].filename = path,
                                     !.pool[i].data = path]
                IN /\ SetCache(c2)
                   /\ sessions' = [sessions EXCEPT
                        ![s].data = path,
                        ![s].cache_pool_index = i,
                        ![s].kv_value = NONE,
                        ![s].inuse_reg = c2.pool[i].inuse,
                        ![s].pc = "miss_inc"]
             /\ cache_lock' = s
  /\ UNCHANGED <<cfg, now, sess_len, sess_free, busy_items, ts>>

(* handle_request, miss: hss_cache_lock, eviction scan, clib_file_contents
   (read_ok), pool_get_zero .. the load of ce->inuse++ *)
MissLock(s, read_ok) ==
  /\ sessions[s].pc = "miss"
  /\ cache_lock = NoHolder
  /\ LET ev == Evict(Cache) IN
     /\ ev.c.evict <= MaxEvictions
     /\ Len(ev.c.free) <= MaxPool
     /\ IF ev.spin
        THEN /\ cache_lock' = s
             /\ sessions' = [sessions EXCEPT ![s].pc = "spin"]
             /\ UNCHANGED cacheVars
        ELSE IF ~read_ok
        THEN /\ SetCache(ev.c)
             /\ cache_lock' = NoHolder
             /\ sessions' = [sessions EXCEPT ![s].pc = "done",
                                             ![s].sc = 500,
                                             ![s].kv_value = NONE]
        ELSE /\ PoolGetIndex(ev.c) \in Slots
             /\ LET i == PoolGetIndex(ev.c)
                    path == sessions[s].path
                    c1 == pool_get_zero(ev.c)
                    c2 == [c1 EXCEPT !.pool[i].filename = path,
                                     !.pool[i].data = path]
                IN /\ SetCache(c2)
                   /\ sessions' = [sessions EXCEPT
                        ![s].data = path,
                        ![s].cache_pool_index = i,
                        ![s].kv_value = NONE,
                        ![s].inuse_reg = c2.pool[i].inuse,
                        ![s].pc = "miss_inc"]
             /\ cache_lock' = s
  /\ UNCHANGED <<cfg, now, sess_len, sess_free, busy_items, ts>>

(* handle_request, miss: the store of ce->inuse++, lru_add, index add,
   cache_size update, hss_cache_unlock, the reset of data_offset; up to
   the done label *)
MissInc(s) ==
  /\ sessions[s].pc = "miss_inc"
  /\ LET i == sessions[s].cache_pool_index
         c1 == [Cache EXCEPT !.pool[i].inuse = sessions[s].inuse_reg + 1]
         c2 == lru_add(c1, i, now)
         c3 == n2d_add(c2, sessions[s].path, i)
         c4 == [c3 EXCEPT !.size = c3.size + VecLen(c3.pool[i].data)]
     IN SetCache(c4)
  /\ cache_lock' = NoHolder
  /\ sessions' = [sessions EXCEPT ![s].pc = "done", ![s].sc = 200,
                                  ![s].inuse_reg = 0, ![s].data_offset = 0]
  /\ UNCHANGED <<cfg, now, sess_len, sess_free, busy_items, ts>>

\* the transport session is gone with its fifos; a url handler keeps the
\* session handle it was given, which now names a freed index
TsGone(t) == [ZeroTs EXCEPT !.handle = t.handle, !.stale = t.handle]

\* what hss_detach_cache_entry hands to vec_free for session record hs:
\* the data vector when free_data is set, and the path
VecFreed(hs) ==
  (IF hs.free_data /\ hs.data # NoData THEN {<<"data", hs.data>>} ELSE {}) \cup
  (IF hs.path # NoPath THEN {<<"path", hs.path>>} ELSE {})

\* the cache pool after `if (hs->free_data) vec_free (hs->data)`: when
\* hs->data is the buffer of a cache entry, the entry's data pointer dangles
VecFreeData(pool, hs) ==
  IF hs.free_data /\ hs.data \in Paths
  THEN [j \in Slots |-> IF pool[j].data = hs.data
                        THEN [pool[j] EXCEPT !.data = Freed] ELSE pool[j]]
  ELSE pool

\* hss_detach_cache_entry from the free of hs->data on, then
\* hss_session_free; pool is the cache pool after the inuse update.
\* Freeing a vector a second time either faults or goes unnoticed
DetachRest(s, pool) ==
  \E fault \in BOOLEAN :
     /\ fault => (sessions[s].free_data /\ sessions[s].data = Freed)
     /\ IF fault
        THEN /\ sessions' = [sessions EXCEPT ![s].pc = "crash"]
             /\ cache_pool' = pool
             /\ UNCHANGED <<sess_len, sess_free, ts>>
        ELSE /\ cache_pool' = VecFreeData(pool, sessions[s])
             /\ sessions' = [sessions EXCEPT ![s] = ZeroSession]
             /\ SessionFree(s)
             /\ ts' = [ts EXCEPT ![s] = TsGone(@)]

(* hss_ts_cleanup, SESSION kind -> hss_detach_cache_entry: with a cache
   handle, the load of ep->inuse--; without one, the whole cleanup *)
Cleanup(s) ==
  /\ SessionLive(s)
  /\ ThreadIdle(Thread(s))
  /\ IF sessions[s].cache_pool_index # NONE
     THEN /\ cache_pool[sessions[s].cache_pool_index].inuse >= 0
          /\ sessions' = [sessions EXCEPT
                 ![s].inuse_reg = cache_pool[sessions[s].cache_pool_index].inuse,
                 ![s].pc = "detach"]
          /\ UNCHANGED <<cache_pool, sess_len, sess_free, ts>>
     ELSE DetachRest(s, cache_pool)
  /\ UNCHANGED <<cfg, pool_len, free_indices, free_bitmap, first_index, last_index,
                 name_to_data, cache_size, cache_evictions, cache_lock, now,
                 busy_items>>

(* hss_detach_cache_entry: the store of ep->inuse--, the rest of the
   detach, hss_session_free *)
DetachStore(s) ==
  /\ sessions[s].pc = "detach"
  /\ DetachRest(s, [cache_pool EXCEPT ![sessions[s].cache_pool_index].inuse =
                                       sessions[s].inuse_reg - 1])
  /\ UNCHANGED <<cfg, pool_len, free_indices, free_bitmap, first_index, last_index,
                 name_to_data, cache_size, cache_evictions, cache_lock, now,
                 busy_items>>

(* hss_clear_cache_command_fn, on the main thread *)
Clear ==
  /\ ThreadIdle(0)
  /\ cache_lock = NoHolder
  /\ LET r == ClearScan(Cache, last_index, 0, ScanFuel) IN
     /\ r.c.evict <= MaxEvictions
     /\ Len(r.c.free) <= MaxPool
     /\ IF r.spin
        THEN /\ cache_lock' = CliHolder
             /\ UNCHANGED <<cacheVars, busy_items>>
        ELSE /\ SetCache(r.c)
             /\ busy_items' = r.busy
             /\ UNCHANGED cache_lock
  /\ UNCHANGED <<cfg, now, sessions, sess_len, sess_free, ts>>

\* the bytes the tx callback copies from hs->data + hs->data_offset: with
\* data_offset holding the residue of a negative enqueue result the copy
\* starts 2^32 + data_offset bytes past the buffer's start
TxBytes(hs, n) ==
  IF hs.data_offset < 0
  THEN [k \in 1 .. n |-> ByteItem("oob", 0)]
  ELSE Bytes(hs.data, hs.data_offset, n)

(* hss_ts_tx_callback, on the dequeue notification the session asked for;
   free is the room of the fifo, oob_crash whether a copy from beyond the
   buffer faults *)
TxCallback(s, free, oob_crash) ==
  /\ ts[s].want_deq_ntf
  /\ ThreadIdle(Thread(s))
  /\ LET hs == sessions[s]
         t0 == [ts[s] EXCEPT !.want_deq_ntf = FALSE, !.event = "tx"]
         to_send == hs.data_len - hs.data_offset
         rv == FifoEnqueue(free, to_send)
     IN IF ~SessionLive(s) \/ hs.data = NoData
        THEN /\ ts' = [ts EXCEPT ![s] = t0]
             /\ UNCHANGED sessions
        ELSE IF rv <= 0
        THEN /\ ts' = [ts EXCEPT ![s] = [t0 EXCEPT !.want_deq_ntf = TRUE]]
             /\ UNCHANGED sessions
        ELSE IF hs.data_offset < 0 /\ oob_crash
        THEN /\ sessions' = [sessions EXCEPT ![s].pc = "crash"]
             /\ ts' = [ts EXCEPT ![s] = t0]
        ELSE /\ ts' = [ts EXCEPT ![s] =
                        [t0 EXCEPT !.tx_fifo = @ \o TxBytes(hs, rv),
                                   !.want_deq_ntf = rv < to_send]]
             /\ sessions' = [sessions EXCEPT ![s].data_offset =
                                IF rv < to_send THEN @ + rv ELSE @]
  /\ UNCHANGED <<cfg, cacheVars, cache_lock, now, sess_len, sess_free, busy_items>>

(* hss_session_send_data, called on thread w by a url handler that
   returned ASYNC, with the session handle it was given and its output;
   the function runs on the thread of its caller, which is between
   callbacks.  hss_session_get of a freed index yields a null session,
   which is then dereferenced; of a reused index, the session that now
   lives there.  The data the session holds is freed first when free_data
   is set; freeing a vector a second time either faults or goes unnoticed *)
SendData(w, s, out, free) ==
  /\ ThreadIdle(w)
  /\ ts[s].handle
  /\ \E fault \in BOOLEAN :
        /\ fault => /\ SessionLive(s)
                    /\ sessions[s].free_data /\ sessions[s].data = Freed
        /\ LET t0 == [ts[s] EXCEPT !.handle = FALSE, !.stale = FALSE]
           IN IF ~SessionLive(s) \/ fault
              THEN /\ sessions' = [sessions EXCEPT ![s].pc = "crash"]
                   /\ ts' = [ts EXCEPT ![s] = t0]
                   /\ UNCHANGED cache_pool
              ELSE LET hs1 == [sessions[s] EXCEPT !.data = out.data,
                                                  !.data_len = out.len,
                                                  !.free_data = out.free]
                       r == start_send_data(hs1, [t0 EXCEPT !.event = "send",
                                                            !.caller = w],
                                            200, free)
                   IN /\ sessions' = [sessions EXCEPT ![s] =
                             IF r.crash THEN [r.hs EXCEPT !.pc = "crash"]
                             ELSE r.hs]
                      /\ ts' = [ts EXCEPT ![s] = r.ts]
                      /\ cache_pool' = VecFreeData(cache_pool, sessions[s])
  /\ UNCHANGED <<cfg, pool_len, free_indices, free_bitmap, first_index, last_index,
                 name_to_data, cache_size, cache_evictions, cache_lock, now,
                 sess_len, sess_free, busy_items>>

(* ---------------------------- specifications --------------------------- *)
\* one thread, two sessions of its pool, requests for the files, the CLI
SeqSess == {<<0, 0>>, <<0, 1>>}

NextSeq ==
  \/ Accept(0) /\ <<0, SessAllocIndex(0)>> \in SeqSess
  \/ \E s \in SeqSess, p \in Paths : RxFile(s, p)
  \/ \E s \in SeqSess : HitLock(s)
  \/ \E s \in SeqSess : HitInc(s)
  \/ \E s \in SeqSess, read_ok \in BOOLEAN : MissLock(s, read_ok)
  \/ \E s \in SeqSess : MissInc(s)
  \/ \E s \in SeqSess, free \in FreeRoom : Done(s, free)
  \/ \E s \in SeqSess : Cleanup(s)
  \/ \E s \in SeqSess : DetachStore(s)
  \/ Clear

SpecSeq == Init /\ [][NextSeq]_vars

\* one session of thread 0: every kind of request for one file and for the
\* registered urls, the tx notifications, the late reply of an
\* asynchronous handler, the cleanup
ReqSess == {<<0, 0>>}

NextReq ==
  /\ Running
  /\ \/ Accept(0) /\ <<0, SessAllocIndex(0)>> \in ReqSess
     \/ \E s \in ReqSess, free \in FreeRoom : RxBadMethod(s, free)
     \/ \E s \in ReqSess, rv \in HandlerRv, out \in HandlerOut,
           free \in FreeRoom : RxHandler(s, rv, out, free)
     \/ \E s \in ReqSess : RxNoFile(s)
     \/ \E s \in ReqSess : RxRedirect(s)
     \/ \E s \in ReqSess : RxFile(s, "a")
     \/ \E s \in ReqSess : HitLock(s)
     \/ \E s \in ReqSess : HitInc(s)
     \/ \E s \in ReqSess, read_ok \in BOOLEAN : MissLock(s, read_ok)
     \/ \E s \in ReqSess : MissInc(s)
     \/ \E s \in ReqSess, free \in FreeRoom : Done(s, free)
     \/ \E s \in ReqSess, free \in FreeRoom, oob_crash \in BOOLEAN :
           TxCallback(s, free, oob_crash)
     \/ \E s \in ReqSess, out \in HandlerOut, free \in FreeRoom :
           SendData(Thread(s), s, out, free)
     \/ \E s \in ReqSess : Cleanup(s)
     \/ \E s \in ReqSess : DetachStore(s)

SpecReq == InitAnyCfg /\ [][NextReq]_vars

\* the same, with the scheduling the session layer provides: a callback
\* that has started runs to its end, and a dequeue notification the session
\* asked for is delivered once the tx fifo has room
TxDrained ==
  \E s \in ReqSess, free \in 1 .. MaxFree, oob_crash \in BOOLEAN :
     TxCallback(s, free, oob_crash)

CallbackReturns ==
  \E s \in ReqSess :
     \/ HitLock(s) \/ HitInc(s) \/ MissInc(s) \/ DetachStore(s)
     \/ \E read_ok \in BOOLEAN : MissLock(s, read_ok)
     \/ \E free \in FreeRoom : Done(s, free)

SpecReqFair ==
  SpecReq /\ WF_vars(Running /\ TxDrained) /\ WF_vars(Running /\ CallbackReturns)

\* the kinds of cleanup notification of the session layer
CleanupNtf == {"transport", "session"}

(* hss_ts_cleanup for a SESSION_CLEANUP_TRANSPORT notification, or for an
   index that hss_session_get does not find: the callback returns *)
CleanupIgnored(s, ntf) ==
  /\ ThreadIdle(Thread(s))
  /\ ntf = "transport" \/ ~SessionLive(s)
  /\ ts' = [ts EXCEPT ![s].event = "cleanup"]
  /\ UNCHANGED <<cfg, cacheVars, cache_lock, now, sessions, sess_len, sess_free,
                 busy_items>>

\* one session of thread 0 from accept to cleanup, with both kinds of
\* cleanup notification: requests for a file, a directory, a handler url,
\* an unsupported method
NextCleanup ==
  /\ Running
  /\ \/ Accept(0) /\ <<0, SessAllocIndex(0)>> \in ReqSess
     \/ \E s \in ReqSess, free \in FreeRoom : RxBadMethod(s, free)
     \/ \E s \in ReqSess, out \in HandlerOut, free \in FreeRoom :
           RxHandler(s, "OK", out, free)
     \/ \E s \in ReqSess : RxRedirect(s)
     \/ \E s \in ReqSess : RxFile(s, "a")
     \/ \E s \in ReqSess : HitLock(s)
     \/ \E s \in ReqSess : HitInc(s)
     \/ \E s \in ReqSess : MissLock(s, TRUE)
     \/ \E s \in ReqSess : MissInc(s)
     \/ \E s \in ReqSess, free \in FreeRoom : Done(s, free)
     \/ \E s \in ReqSess, free \in FreeRoom, oob_crash \in BOOLEAN :
           TxCallback(s, free, oob_crash)
     \/ \E s \in ReqSess : Cleanup(s)
     \/ \E s \in ReqSess : DetachStore(s)
     \/ \E s \in ReqSess, ntf \in CleanupNtf : CleanupIgnored(s, ntf)

SpecCleanup == Init /\ [][NextCleanup]_vars

\* started with www-root on any uri
InitUri ==
  /\ InitState
  /\ cfg \in {[Started(FALSE, TRUE) EXCEPT !.proto = pr, !.port = po] :
                 pr \in Protos, po \in Ports}

\* one session of thread 0 asking for directories, with and without an
\* index.html
NextRedirect ==
  \/ Accept(0) /\ <<0, SessAllocIndex(0)>> \in ReqSess
  \/ \E s \in ReqSess : RxRedirect(s)
  \/ \E s \in ReqSess : RxNoFile(s)
  \/ \E s \in ReqSess, free \in FreeRoom : Done(s, free)
  \/ \E s \in ReqSess : Cleanup(s)

SpecRedirect == InitUri /\ [][NextRedirect]_vars

\* one session of thread 0 and the url handlers, which may finish an
\* asynchronous request on any thread
NextAsync ==
  /\ Running
  /\ \/ Accept(0) /\ <<0, SessAllocIndex(0)>> \in ReqSess
     \/ \E s \in ReqSess, rv \in HandlerRv, out \in HandlerOut,
           free \in FreeRoom : RxHandler(s, rv, out, free)
     \/ \E s \in ReqSess, free \in FreeRoom, oob_crash \in BOOLEAN :
           TxCallback(s, free, oob_crash)
     \/ \E w \in Threads, s \in ReqSess, out \in HandlerOut,
           free \in FreeRoom : SendData(w, s, out, free)
     \/ \E s \in ReqSess : Cleanup(s)

SpecAsync == Init /\ [][NextAsync]_vars

\* what a start command line holds: www-root, url-handlers, a cache-size
\* below 128 KiB, a token the parser does not know (the options are those
\* parsed before it)
StartArgs ==
  [www_root : BOOLEAN, url_handlers : BOOLEAN, cache_small : BOOLEAN,
   unknown : BOOLEAN]

(* hss_create_command_fn -> hss_create -> hss_attach, hss_listen; attach_ok
   and listen_ok are the results of vnet_application_attach and of
   parse_uri / vnet_listen.  The parse loop has no exit on an unknown
   token: the command does not return *)
Create(args, attach_ok, listen_ok) ==
  /\ cfg.error # "spin"
  /\ ThreadIdle(0)
  /\ IF cfg.app_index # NONE
     THEN cfg' = [cfg EXCEPT !.error = "already"]
     ELSE LET c1 == [cfg EXCEPT
                       !.www_root = @ \/ args.www_root,
                       !.enable_url_handlers = @ \/ args.url_handlers]
          IN IF args.unknown
             THEN cfg' = [c1 EXCEPT !.error = "spin"]
             ELSE IF ~c1.www_root /\ ~c1.enable_url_handlers
             THEN cfg' = [c1 EXCEPT !.error = "must_set"]
             ELSE IF args.cache_small
             THEN cfg' = [c1 EXCEPT !.www_root = FALSE,
                                    !.error = "cache_size"]
             ELSE IF ~attach_ok
             THEN cfg' = [c1 EXCEPT !.www_root = FALSE, !.error = "create"]
             ELSE IF ~listen_ok
             THEN cfg' = [c1 EXCEPT !.www_root = FALSE, !.app_index = 0,
                                    !.error = "create"]
             ELSE cfg' = [c1 EXCEPT !.app_index = 0, !.listening = TRUE,
                                    !.error = "ok"]
  /\ UNCHANGED <<cacheVars, cache_lock, now, sessions, sess_len, sess_free,
                 busy_items, ts>>

\* the start command from the state hss_main_init leaves; once the
\* listener is up, one session of thread 0 is served
InitBoot ==
  /\ InitState
  /\ cfg = Stopped

NextStart ==
  \/ \E args \in StartArgs, attach_ok \in BOOLEAN, listen_ok \in BOOLEAN :
        Create(args, attach_ok, listen_ok)
  \/ cfg.listening /\ NextAsync

SpecStart == InitBoot /\ [][NextStart]_vars

\* two threads with one session each, requests for two files; the CLI
\* command runs while no worker is inside a callback
MTSess == {<<0, 0>>, <<1, 0>>}
MTPaths == {"a", "b"}

NextWorkers ==
  \/ \E s \in MTSess : Accept(Thread(s)) /\ SessAllocIndex(Thread(s)) = s[2]
  \/ \E s \in MTSess, p \in MTPaths : RxFile(s, p)
  \/ \E s \in MTSess : HitLock(s)
  \/ \E s \in MTSess : HitInc(s)
  \/ \E s \in MTSess, read_ok \in BOOLEAN : MissLock(s, read_ok)
  \/ \E s \in MTSess : MissInc(s)
  \/ \E s \in MTSess, free \in FreeRoom : Done(s, free)
  \/ \E s \in MTSess : Cleanup(s)
  \/ \E s \in MTSess : DetachStore(s)

NextMT ==
  \/ NextWorkers
  \/ Clear /\ \A w \in Threads : ThreadIdle(w)

SpecMT == Init /\ [][NextMT]_vars

\* the two threads while the clock advances
NextMTT ==
  \/ NextWorkers
  \/ Tick

SpecMTT == Init /\ [][NextMTT]_vars

(* ----------------------------- observations ---------------------------- *)
\* the reply records, and the body bytes, session s has enqueued since its
\* last request was read
IsReply(x) == x.kind = "reply"
IsByte(x) == x.kind = "byte"
IsWord(x) == x.kind = "word"
Replies(s) == SelectSeq(ts[s].tx_fifo, IsReply)
Body(s) == SelectSeq(ts[s].tx_fifo, IsByte)
Words(s) == SelectSeq(ts[s].tx_fifo, IsWord)

\* session s has answered a request with a non-empty body, and the whole
\* body has been enqueued (or handed over by pointer)
BodySent(s) ==
  /\ SessionLive(s)
  /\ sessions[s].pc = "idle"
  /\ ts[s].request \in {"handler_ok", "file"}
  /\ sessions[s].data # NoData
  /\ sessions[s].data_len > 0
  /\ \/ Len(Body(s)) = sessions[s].data_len
     \/ Len(Words(s)) = 1

\* the live sessions whose cache_pool_index is i
Holders(i) ==
  {s \in SessId : SessionLive(s) /\ sessions[s].cache_pool_index = i}

\* the walks of lru_validate: from first_index along next_index, and from
\* last_index along prev_index, cut after n entries
RECURSIVE FwdWalk(_, _)
FwdWalk(i, n) ==
  IF i = NONE \/ n = 0 THEN << >>
  ELSE <<i>> \o FwdWalk(cache_pool[i].next_index, n - 1)

RECURSIVE RevWalk(_, _)
RevWalk(i, n) ==
  IF i = NONE \/ n = 0 THEN << >>
  ELSE <<i>> \o RevWalk(cache_pool[i].prev_index, n - 1)

Fwd == FwdWalk(first_index, MaxPool + 1)
Rev == RevWalk(last_index, MaxPool + 1)
Range(q) == {q[k] : k \in 1 .. Len(q)}

\* sum of vec_len (ce->data) over the entries of S
RECURSIVE SumLen(_)
SumLen(S) ==
  IF S = {} THEN 0
  ELSE LET i == CHOOSE j \in S : TRUE
       IN VecLen(cache_pool[i].data) + SumLen(S \ {i})

\* no thread is inside a critical section of cache_lock
Quiet == cache_lock = NoHolder

\* a step of session s that leaves the miss path's locked first half
MissScanStep(s) == sessions[s].pc = "miss" /\ sessions'[s].pc # "miss"

\* a step of the clear command that returns
ClearStep ==
  /\ sessions' = sessions /\ sess_len' = sess_len /\ sess_free' = sess_free
  /\ now' = now /\ ts' = ts
  /\ cache_lock = NoHolder /\ cache_lock' = NoHolder

NoneInUse == \A i \in 0 .. pool_len - 1 : cache_pool[i].inuse = 0

CacheEmpty ==
  /\ cache_size = 0
  /\ first_index = NONE /\ last_index = NONE
  /\ LiveSlots = {}
  /\ \A p \in Paths : name_to_data[p] = NONE

(* -------------------------------- claims ------------------------------- *)
\* C1: the eviction scan of the miss path never frees an entry whose
\* inuse > 0: every entry that is live and in use when the scan starts is
\* still in the pool with its filename and data, still in the path index
\* and still linked in the LRU list when the scan is over.
C1_EvictionSkipsInUse ==
  [][\A s \in SessId : MissScanStep(s) =>
        \A i \in LiveSlots : cache_pool[i].inuse # 0 =>
           /\ i \notin free_bitmap'
           /\ cache_pool'[i].filename = cache_pool[i].filename
           /\ cache_pool'[i].data = cache_pool[i].data
           /\ name_to_data'[cache_pool[i].filename] =
                 name_to_data[cache_pool[i].filename]
           /\ (i \in Range(Fwd)) => (i \in Range(Fwd'))]_vars

\* C2: whenever no thread is inside a critical section, the inuse of every
\* live cache entry equals the number of live sessions whose
\* cache_pool_index points at it.
C2_InuseCountsHolders ==
  Quiet => \A i \in LiveSlots : cache_pool[i].inuse = Cardinality(Holders(i))

\* C3: whenever no thread is inside a critical section, cache_size is the
\* sum of vec_len (data) over the live cache entries.
C3_CacheSizeIsSum == Quiet => cache_size = SumLen(LiveSlots)

\* C4: whenever no thread is inside a critical section, the path index and
\* the live entries are in bijection: a live entry's filename maps to its
\* index, and every key of the index maps to a live entry of that filename.
C4_IndexBijection ==
  Quiet =>
    /\ \A i \in LiveSlots :
          /\ cache_pool[i].filename \in Paths
          /\ name_to_data[cache_pool[i].filename] = i
    /\ \A p \in Paths : name_to_data[p] # NONE =>
          /\ Live(name_to_data[p])
          /\ cache_pool[name_to_data[p]].filename = p

\* C5: whenever no thread is inside a critical section, the LRU list walked
\* from first_index along next_index, and from last_index along prev_index,
\* holds exactly the live entries, each once and without a cycle; the two
\* walks are the reverse of each other, first_index has no prev,
\* last_index has no next, and both are none iff there is no live entry.
C5_LruIsLiveSet ==
  Quiet =>
    /\ Len(Fwd) <= MaxPool /\ Len(Rev) <= MaxPool
    /\ Range(Fwd) = LiveSlots /\ Range(Rev) = LiveSlots
    /\ Len(Fwd) = Cardinality(LiveSlots) /\ Len(Rev) = Cardinality(LiveSlots)
    /\ Len(Fwd) = Len(Rev)
       => \A k \in 1 .. Len(Fwd) : Rev[k] = Fwd[Len(Fwd) + 1 - k]
    /\ (first_index = NONE) <=> (LiveSlots = {})
    /\ (last_index = NONE) <=> (LiveSlots = {})
    /\ first_index # NONE => cache_pool[first_index].prev_index = NONE
    /\ last_index # NONE => cache_pool[last_index].next_index = NONE

\* C6: whenever no thread is inside a critical section, the walk of the
\* LRU list from first_index yields non-increasing last_used, and the walk
\* from last_index yields non-decreasing last_used: lru_validate never
\* warns.
C6_LruTimestampsMonotone ==
  Quiet =>
    /\ \A k \in 1 .. Len(Fwd) - 1 :
          cache_pool[Fwd[k]].last_used >= cache_pool[Fwd[k + 1]].last_used
    /\ \A k \in 1 .. Len(Rev) - 1 :
          cache_pool[Rev[k]].last_used <= cache_pool[Rev[k + 1]].last_used

\* C7: the step that completes a hit leaves the entry's inuse one above
\* what it was and the entry at first_index; the step that completes a
\* release leaves the entry's inuse one below what it was; whatever the
\* other threads do in between.
C7_HitAndReleaseByOne ==
  [][\A s \in SessId :
        LET i == sessions[s].cache_pool_index IN
        /\ (sessions[s].pc = "hit_inc" /\ sessions'[s].pc = "done") =>
              /\ cache_pool'[i].inuse = cache_pool[i].inuse + 1
              /\ first_index' = i
        /\ (sessions[s].pc = "detach" /\ sessions'[s].pc = "idle") =>
              cache_pool'[i].inuse = cache_pool[i].inuse - 1]_vars

C9_ClearFreesUnreferenced ==
  [][ClearStep =>
        /\ \A i \in LiveSlots : cache_pool[i].inuse = 0 => i \in free_bitmap'
        /\ busy_items' =
              Cardinality({i \in LiveSlots : cache_pool[i].inuse # 0})]_vars

\* C10: the clear command on a cache in which no entry is in use leaves
\* cache_size = 0, first_index = last_index = none, no live entry and an
\* empty path index; the clear command on that state changes nothing.
C10_ClearEmptiesAndIsIdempotent ==
  [][/\ (ClearStep /\ NoneInUse) => CacheEmpty'
     /\ (ClearStep /\ CacheEmpty) => UNCHANGED cacheVars]_vars

\* C11: an acquire for a path hands the session the bytes of that path's
\* file: a miss hands over what it has read, a hit on the live entry the
\* path index maps the path to (not evicted) hands over the file's bytes;
\* and the data of an entry that stays live under the same filename never
\* changes.
C11_AcquireHandsFileBytes ==
  [][/\ \A s \in SessId :
          LET i == sessions[s].cache_pool_index IN
          /\ (sessions[s].pc = "miss_inc" /\ sessions'[s].pc = "done")
                => sessions'[s].data = sessions[s].path
          /\ (sessions[s].pc = "hit_inc" /\ sessions'[s].pc = "done"
                 /\ Live(i) /\ name_to_data[sessions[s].path] = i)
                => sessions'[s].data = sessions[s].path
     /\ \A i \in Slots :
          (Live(i) /\ Live(i)' /\ cache_pool[i].filename # NoPath
             /\ cache_pool'[i].filename = cache_pool[i].filename)
            => cache_pool'[i].data = cache_pool[i].data]_vars

\* C12: once a request with a non-empty body has had its last body byte
\* enqueued, the engine eventually asks for the transport disconnect.
C12_BodySentLeadsToDisconnect ==
  \A s \in ReqSess : BodySent(s) ~> ts[s].disconnect

\* the response under way on session s is the inline body a handler
\* returned with OK
InlineResponse(s) ==
  /\ SessionLive(s)
  /\ ts[s].request = "handler_ok"
  /\ sessions[s].data # NoData
  /\ sessions[s].data_len <= UsePtrThresh

\* a step of the tx callback on session s that enqueues
TxStep(s) ==
  /\ ts'[s].event = "tx"
  /\ Len(ts'[s].tx_fifo) > Len(ts[s].tx_fifo)

\* C13: the body bytes enqueued for an inline response, by start_send_data
\* and by the tx callbacks after it, are data[0 .. data_len) in order, each
\* byte once, and every tx callback advances data_offset by the number of
\* bytes the fifo accepted from it.
C13_InlineBodyExactlyOnce ==
  [][\A s \in SessId :
        /\ InlineResponse(s)' =>
              /\ Len(Body(s)') <= sessions'[s].data_len
              /\ \A k \in 1 .. Len(Body(s)') :
                    Body(s)'[k] = ByteItem(sessions'[s].data, k - 1)
        /\ (InlineResponse(s) /\ TxStep(s)) =>
              sessions'[s].data_offset - sessions[s].data_offset =
                 Len(ts'[s].tx_fifo) - Len(ts[s].tx_fifo)]_vars

\* a step in which session s reads a message of kind req from its rx fifo
RxStep(s, req) ==
  /\ ts'[s].request = req /\ ts'[s].event = "rx"
  /\ sessions[s].pc = "idle"
  /\ <<sessions'[s], ts'[s]>> # <<sessions[s], ts[s]>>

\* C14: a message that is not a request, or whose method is neither GET
\* nor POST, is answered with one reply record of code 405 and data.len 0,
\* the transport disconnect is requested, and no cache state changes.
C14_BadMethod405AndDisconnect ==
  [][\A s \in SessId :
        RxStep(s, "bad") =>
           /\ ts'[s].tx_fifo = <<ReplyItem(405, 0, "inline")>>
           /\ ts'[s].disconnect
           /\ UNCHANGED cacheVars]_vars

\* the step at the done label of handle_request on session s
DoneStep(s) == sessions[s].pc = "done" /\ sessions'[s].pc # "done"

\* C15: a request that no handler matches and whose file resolution fails
\* is answered with one reply record of code 404 and data.len 0 and no
\* body, the disconnect is requested, the session holds no cache handle,
\* and the cache is not modified.
C15_NotFound404AndDisconnect ==
  [][\A s \in SessId :
        /\ RxStep(s, "nofile") => UNCHANGED cacheVars
        /\ (DoneStep(s) /\ ts[s].request = "nofile") =>
              /\ ts'[s].tx_fifo = <<ReplyItem(404, 0, "inline")>>
              /\ ts'[s].disconnect
              /\ sessions'[s].cache_pool_index = NONE
              /\ UNCHANGED cacheVars]_vars

\* the step of session s on the miss path in which the read fails
MissFailStep(s) == sessions[s].pc = "miss" /\ sessions'[s].pc = "done"

\* C16: a read failure on the miss path allocates no cache entry, adds no
\* key, does not increase cache_size, leaves the session's
\* cache_pool_index as it was (none), and releases cache_lock; the reply
\* then sent has code 500 and is enqueued without cache_lock held.
C16_ReadFailure500 ==
  [][\A s \in SessId :
        /\ MissFailStep(s) =>
              /\ LiveSlots' \subseteq LiveSlots
              /\ \A p \in Paths : name_to_data'[p] \in {NONE, name_to_data[p]}
              /\ cache_size' <= cache_size
              /\ sessions'[s].cache_pool_index = sessions[s].cache_pool_index
              /\ cache_lock' # s
        /\ (DoneStep(s) /\ sessions[s].sc = 500) =>
              /\ Len(Replies(s)') = 1
              /\ Replies(s)'[1].code = 500
              /\ cache_lock # s
              /\ sessions'[s].cache_pool_index = sessions[s].cache_pool_index
              /\ UNCHANGED cacheVars]_vars

\* C16, the case: a session whose miss evicted an entry and then failed to
\* read the file has sent its reply and holds no cache handle
C16_ReadFailureReplied ==
  \E s \in SessId :
     /\ sessions[s].pc = "idle"
     /\ ts[s].request = "file"
     /\ Len(Replies(s)) = 1
     /\ Replies(s)[1].code = 500
     /\ sessions[s].cache_pool_index = NONE
     /\ cache_evictions > 0

\* C17: when a registered handler returns ERROR the engine enqueues one
\* reply record of code 404 with data.len 0 and no body byte, and asks
\* for the disconnect, whatever the handler left in its output.
C17_HandlerError404Empty ==
  [][\A s \in SessId :
        RxStep(s, "handler_error") =>
           /\ ts'[s].tx_fifo = <<ReplyItem(404, 0, "inline")>>
           /\ ts'[s].disconnect]_vars

\* a step in which session s reads a request for a registered url and
\* runs its handler
HandlerStep(s) ==
  \E rv \in HandlerRv : RxStep(s, HandlerReq(rv))

\* a url handler that returned ASYNC on session s has not replied yet
AsyncPending(s) ==
  /\ SessionLive(s)
  /\ ts[s].request = "handler_async"
  /\ ts[s].handle

\* C18: a request for a registered url with handlers enabled runs the
\* handler and neither looks up nor changes the cache; after ASYNC no
\* reply record is enqueued and no disconnect is requested before
\* hss_session_send_data; with handlers disabled no handler runs and every
\* request is resolved in the filesystem.
C18_HandlerBypassesCache ==
  [][\A s \in SessId :
        /\ HandlerStep(s) =>
              /\ cfg.enable_url_handlers
              /\ UNCHANGED <<cacheVars, cache_lock>>
              /\ sessions'[s].kv_value = sessions[s].kv_value
              /\ sessions'[s].pc \notin {"hit", "miss", "done"}
        /\ RxStep(s, "handler_async") =>
              /\ ts'[s].tx_fifo = << >>
              /\ ~ts'[s].disconnect
        /\ AsyncPending(s)' =>
              /\ Len(Replies(s)') = 0
              /\ ~ts'[s].disconnect
        /\ (~cfg.enable_url_handlers /\ sessions[s].pc = "idle"
              /\ ts'[s].event = "rx" /\ ts'[s] # ts[s]) =>
              ts'[s].request \in {"bad", "nofile", "redirect", "file"}]_vars

\* C18, the case: with a file in the cache, a handler has returned ASYNC
\* and the session waits for hss_session_send_data
C18_AsyncWaiting ==
  \E s \in SessId :
     /\ AsyncPending(s)
     /\ ts[s].tx_fifo = << >>
     /\ cache_size > 0

\* C19: when only the third stat attempt succeeds the response is the raw
\* redirect string: what is enqueued for the request are bytes of that
\* string, in order from its first byte, and no framed reply record; when
\* the first or second attempt succeeds no redirect is sent.
C19_RedirectIsRawBytes ==
  [][\A s \in SessId :
        /\ (DoneStep(s) /\ ts[s].request = "redirect") =>
              /\ Len(Replies(s)') = 0
              /\ \A k \in 1 .. Len(ts'[s].tx_fifo) :
                    ts'[s].tx_fifo[k] = ByteItem("redirect", k - 1)
        /\ RxStep(s, "file") => sessions'[s].data # "redirect"]_vars

\* what session s enqueues in a step, after the items in old
Sent(s, old) ==
  SubSeq(ts'[s].tx_fifo, Len(old) + 1, Len(ts'[s].tx_fifo))

\* new is what one call of start_send_data with status on session record
\* hs may enqueue
WellFramed(new, status, hs) ==
  LET ptr == hs.data_len > UsePtrThresh IN
  /\ Len(new) >= 1
  /\ new[1].kind = "reply"
  /\ new[1].code = status
  /\ new[1].content_type = "text/html"
  /\ new[1].len = hs.data_len
  /\ new[1].type = IF ptr THEN "ptr" ELSE "inline"
  /\ IF ptr
     THEN new = <<new[1], WordItem(hs.data)>>
     ELSE /\ \A k \in 2 .. Len(new) : new[k].kind = "byte"
          /\ hs.data_len = 0 => Len(new) = 1

\* a step in which hss_session_send_data runs on session s
SendDataStep(s) ==
  /\ ts[s].handle /\ ~ts'[s].handle
  /\ ts'[s].event = "send"

HsFields(hs) ==
  <<hs.data, hs.data_len, hs.data_offset, hs.free_data, hs.path,
    hs.cache_pool_index>>

\* C21: the fields of a session are written only on the session's home
\* thread: a call of hss_session_send_data that runs on another thread
\* writes none of data, data_len, data_offset, free_data, path and
\* cache_pool_index.
C21_FieldsWrittenOnHomeThread ==
  [][\A s \in SessId :
        (SendDataStep(s) /\ HsFields(sessions'[s]) # HsFields(sessions[s]))
           => ts'[s].caller = Thread(s)]_vars

\* session s holds cache_lock before or after the step it makes
LockedStep(s) ==
  /\ sessions'[s] # sessions[s]
  /\ cache_lock = s \/ cache_lock' = s

\* C22: every step that changes the shared cache state (the pool, the path
\* index, the LRU links, first and last index, cache_size,
\* cache_evictions, an entry's inuse) is made by the clear command under
\* cache_lock or by a session that holds cache_lock.
C22_CacheMutatedUnderLock ==
  [][cacheVars' # cacheVars =>
        \/ ClearStep
        \/ \E s \in SessId : LockedStep(s)]_vars

\* C23: a start command that fails by misconfiguration, by a failed attach
\* or by a failed listen leaves app_index none; the command fails when the
\* server is already running, when the line names neither www-root nor
\* url-handlers, and when cache-size is below 128 KiB.
C23_FailedStartLeavesStopped ==
  [][\A args \in StartArgs, attach_ok \in BOOLEAN, listen_ok \in BOOLEAN :
        Create(args, attach_ok, listen_ok) =>
           /\ cfg'.error \notin {"ok", "already"} => cfg'.app_index = NONE
           /\ cfg.app_index # NONE => cfg'.error = "already"
           /\ (~args.www_root /\ ~args.url_handlers) => cfg'.error # "ok"
           /\ args.cache_small => cfg'.error # "ok"]_vars

\* the entries a step evicts, counted by cache_evictions
Evicted == cache_evictions' - cache_evictions

\* C24: the eviction scan of a miss evicts nothing when it starts with
\* cache_size <= cache_limit, and otherwise evicts from the LRU tail only
\* while cache_size > cache_limit: before the last entry it evicts,
\* cache_size was still above cache_limit (a scan that reaches
\* cache_size = cache_limit stops).
C24_EvictionStopsAtLimit ==
  [][\A s \in SessId : MissScanStep(s) =>
        /\ cache_size <= CacheLimit => Evicted = 0
        /\ (Evicted >= 1 /\ Evicted <= Len(Rev)) =>
              cache_size' + VecLen(cache_pool[Rev[Evicted]].data)
                 > CacheLimit]_vars

\* what a hit or a release may not change of slot j
EntryKept(j) ==
  /\ cache_pool'[j].filename = cache_pool[j].filename
  /\ cache_pool'[j].data = cache_pool[j].data

\* the cache state outside the pool's slots
CacheFrame ==
  /\ cache_size' = cache_size
  /\ cache_evictions' = cache_evictions
  /\ name_to_data' = name_to_data
  /\ pool_len' = pool_len
  /\ free_indices' = free_indices
  /\ free_bitmap' = free_bitmap

\* the steps of session s on the hit path, and of its release
HitStep(s) == sessions[s].pc \in {"hit", "hit_inc"} /\ sessions'[s] # sessions[s]
ReleaseStep(s) ==
  \/ sessions[s].pc = "detach" /\ sessions'[s] # sessions[s]
  \/ sessions[s].pc = "idle" /\ sessions'[s].pc = "detach"

\* C25: a hit changes nothing in the cache but the hit entry's inuse and
\* last_used and the LRU links; a release changes nothing but the released
\* entry's inuse: cache_size, cache_evictions, the set of live entries,
\* every entry's filename and data and the path index stay as they are, in
\* particular when a release brings inuse to zero.
C25_HitAndReleaseFrame ==
  [][\A s \in SessId :
        /\ HitStep(s) =>
              /\ CacheFrame
              /\ \A j \in Slots : EntryKept(j)
              /\ \A j \in Slots : j # sessions'[s].cache_pool_index =>
                    /\ cache_pool'[j].inuse = cache_pool[j].inuse
                    /\ cache_pool'[j].last_used = cache_pool[j].last_used
        /\ ReleaseStep(s) =>
              /\ CacheFrame
              /\ first_index' = first_index /\ last_index' = last_index
              /\ \A j \in Slots :
                    cache_pool'[j] =
                       [cache_pool[j] EXCEPT !.inuse = cache_pool'[j].inuse]
              /\ \A j \in Slots : j # sessions[s].cache_pool_index =>
                    cache_pool'[j].inuse = cache_pool[j].inuse]_vars

\* C26: the clear command frees no entry whose inuse > 0: such an entry
\* is still live, linked in the LRU list and in the path index, with its
\* data, when clear returns; and the loop of the clear command ends in
\* every cache state (the command never spins under cache_lock).
C26_ClearKeepsInUse ==
  [][/\ ClearStep =>
          \A i \in LiveSlots : cache_pool[i].inuse # 0 =>
             /\ i \notin free_bitmap'
             /\ EntryKept(i)
             /\ name_to_data'[cache_pool[i].filename] =
                   name_to_data[cache_pool[i].filename]
             /\ (i \in Range(Fwd)) => (i \in Range(Fwd'))
     /\ cache_lock' # CliHolder]_vars

\* session s is between hss_cache_lock and hss_cache_unlock
InCritical(s) == sessions[s].pc \in {"hit_inc", "miss_inc", "spin"}

\* C27: a session holds cache_lock from the lock call of the hit or miss
\* path to the unlock call, in every state in between and in no other
\* state; the lock is given up by its holder only, on every way out of the
\* hit and miss paths, the read failure included; and no step that
\* enqueues to the tx fifo or returns from a callback is made with
\* cache_lock held by the session.
C27_LockHeldAcrossCachePaths ==
  [][\A s \in SessId :
        /\ InCritical(s)' <=> cache_lock' = s
        /\ (cache_lock = s /\ cache_lock' # s) =>
              /\ sessions[s].pc \in {"hit_inc", "miss_inc"}
              /\ sessions'[s].pc = "done"
              /\ cache_lock' = NoHolder
        /\ (sessions[s].pc = "miss" /\ sessions'[s].pc = "done") =>
              cache_lock' = NoHolder
        /\ ts'[s].tx_fifo # ts[s].tx_fifo =>
              cache_lock # s /\ cache_lock' # s
        /\ (sessions[s].pc # "idle" /\ sessions'[s].pc = "idle") =>
              cache_lock # s /\ cache_lock' # s]_vars

\* C27, the case: a miss has evicted under the lock, failed to read the
\* file, released the lock and stands before start_send_data
C27_FailedMissUnlocked ==
  \E s \in SessId :
     /\ sessions[s].pc = "done"
     /\ sessions[s].sc = 500
     /\ cache_evictions > 0
     /\ cache_lock = NoHolder

\* C28: when a session on the hit path, holding cache_lock, takes the
\* data pointer of the entry whose index it looked up outside the lock,
\* and when it then increments inuse, that entry is live and its filename
\* is the path that was looked up.
C28_HitEntryStillLive ==
  [][\A s \in SessId :
        /\ (sessions[s].pc = "hit" /\ sessions'[s].pc = "hit_inc") =>
              /\ Live(sessions[s].kv_value)
              /\ cache_pool[sessions[s].kv_value].filename = sessions[s].path
        /\ (sessions[s].pc = "hit_inc" /\ sessions'[s].pc = "done") =>
              /\ Live(sessions[s].cache_pool_index)
              /\ cache_pool[sessions[s].cache_pool_index].filename =
                    sessions[s].path]_vars

\* C29: in every state of every live session 0 <= data_offset <= data_len,
\* whatever the tx fifo returned on an enqueue and whenever
\* hss_session_send_data replaced the buffer.
C29_OffsetWithinLength ==
  \A s \in SessId : SessionLive(s) =>
     /\ 0 <= sessions[s].data_offset
     /\ sessions[s].data_offset <= sessions[s].data_len

\* the response buffers a session owns: what a url handler synthesised and
\* the redirect handle_request formatted
OwnedData == {"hdata", "redirect"}

\* the step that ends the SESSION-kind cleanup of session s
FinalCleanupStep(s) == SessionLive(s) /\ ~SessionLive(s)'

\* a cleanup callback for s that returned at once
IgnoredCleanupStep(s) == ts'[s].event = "cleanup" /\ ts'[s] # ts[s]

\* C30: the final cleanup of a session releases its cache handle once (the
\* entry's inuse drops by one, cache_pool_index becomes none), frees the
\* response buffer the session owns and the path, and returns the slot, so
\* that hss_session_get finds nothing at its index; a transport-kind
\* notification and a cleanup for a free index change nothing.
C30_FinalCleanupReleases ==
  [][\A s \in ReqSess :
        /\ FinalCleanupStep(s) =>
              /\ sessions[s].cache_pool_index # NONE =>
                    cache_pool'[sessions[s].cache_pool_index].inuse =
                       cache_pool[sessions[s].cache_pool_index].inuse - 1
              /\ \A j \in Slots : j # sessions[s].cache_pool_index =>
                    cache_pool'[j].inuse = cache_pool[j].inuse
              /\ sessions'[s].cache_pool_index = NONE
              /\ sessions[s].data \in OwnedData =>
                    <<"data", sessions[s].data>> \in VecFreed(sessions[s])
              /\ sessions[s].path # NoPath =>
                    <<"path", sessions[s].path>> \in VecFreed(sessions[s])
        /\ IgnoredCleanupStep(s) =>
              UNCHANGED <<cfg, cacheVars, cache_lock, now, sessions, sess_len,
                          sess_free, busy_items>>]_vars


\* a call of hss_session_send_data with the handle of a session that was
\* cleaned up before the call
LateSendStep(s) == ts[s].handle /\ ts[s].stale /\ ~ts'[s].handle

\* C31: hss_session_send_data affects only the session that issued the
\* request: when that session was cleaned up before the call, whether or
\* not its index has been given to a new session since, no freed slot is
\* dereferenced, no live session's data, data_len or free_data is
\* overwritten and no reply is enqueued on any connection.
C31_LateSendAffectsNoOther ==
  [][\A s \in SessId :
        LateSendStep(s) =>
           /\ sessions'[s].pc # "crash"
           /\ sessions'[s].data = sessions[s].data
           /\ sessions'[s].data_len = sessions[s].data_len
           /\ sessions'[s].free_data = sessions[s].free_data
           /\ \A t \in SessId : ts'[t].tx_fifo = ts[t].tx_fifo]_vars

\* C32: in the 301 redirect the scheme of the Location is https iff the
\* transport protocol is TLS, and the port is left out exactly for TCP on
\* port 80 and TLS on port 443; for every other protocol and port, DTLS
\* and QUIC included, the local port is printed.
C32_RedirectSchemeAndPort ==
  [][\A s \in SessId :
        RxStep(s, "redirect") =>
           LET loc == Location(cfg.proto, cfg.port)
               default == \/ cfg.proto = "TCP" /\ cfg.port = 80
                          \/ cfg.proto = "TLS" /\ cfg.port = 443
           IN /\ (loc.scheme = "https") <=> (cfg.proto = "TLS")
              /\ (loc.port = NoPort) <=> default
              /\ ~default => loc.port = cfg.port]_vars

====
